---- MODULE Spec2Model ----
(***************************************************************************)
(* Model of the leadbridge reconciliation engine (src/ads): the CallRail    *)
(* webhook, the Celery task process_call_record, the Shopmonkey order       *)
(* lookup client and the Google Ads upload client, over the three tables    *)
(* CallRecord, ShopmonkeyOrder and OfflineConversion.                       *)
(*                                                                         *)
(* Strings the code inspects character by character (phones, emails,        *)
(* click identifiers, digests) are sequences of one-character strings.      *)
(* None and the empty string, which the code only ever tests for            *)
(* truthiness, are both the empty sequence.                                 *)
(***************************************************************************)
EXTENDS Integers, Sequences, FiniteSets, TLC

(***************************************************************************)
(* Bounds of the model.                                                     *)
(***************************************************************************)
NumWorkers == 2

NumLeads == 3

MaxDeliveries == 2

MaxRuns == 2
\* Longest phone string given to normalize_phone in a direct call.
MaxPhoneLen == 4
\* Most upstream responses given to one direct call of fetch_orders_by_phone.
MaxResponses == 3
\* Largest max_pages argument of a direct call of fetch_orders_by_phone.
MaxPagesArg == 2

(***************************************************************************)
(* Program constants.                                                       *)
(***************************************************************************)
max_retries == 3

default_retry_delay == 86400

LongBackoff == 86400

FetchErrorBackoff == 3600

UploadErrorBackoff == 7200

max_pages == 50

Workers == 1..NumWorkers

CallIds == 1..NumLeads

None == <<>>

Truthy(s) == s /= <<>>

Or(a, b) == IF Truthy(a) THEN a ELSE b

(***************************************************************************)
(* Character-level helpers.                                                 *)
(***************************************************************************)
DigitChars == {"0", "1", "2", "3", "4", "5", "6", "7", "8", "9"}

RECURSIVE OnlyDigits(_)
OnlyDigits(s) ==
    IF s = <<>> THEN <<>>
    ELSE IF Head(s) \in DigitChars THEN <<Head(s)>> \o OnlyDigits(Tail(s))
    ELSE OnlyDigits(Tail(s))

RECURSIVE LStrip(_, _)
LStrip(s, c) ==
    IF s /= <<>> /\ Head(s) = c THEN LStrip(Tail(s), c) ELSE s

RECURSIVE RStrip(_, _)
RStrip(s, c) ==
    IF s /= <<>> /\ s[Len(s)] = c THEN RStrip(SubSeq(s, 1, Len(s) - 1), c) ELSE s

Strip(s) == RStrip(LStrip(s, " "), " ")

LowerChar(c) ==
    CASE c = "A" -> "a"
      [] c = "B" -> "b"
      [] c = "X" -> "x"
      [] OTHER -> c

Lower(s) == [i \in 1..Len(s) |-> LowerChar(s[i])]

\* tasks.py normalize_phone: None for a falsy phone, else the digits with
\* every leading "1" stripped (str.lstrip).
normalize_phone(phone) ==
    IF ~Truthy(phone) THEN None ELSE LStrip(OnlyDigits(phone), "1")

\* SHA-256 hex digest, modelled as an injective tagging of the hashed text.
Sha256Hex(s) == <<"sha256:">> \o s

\* tasks.py hash_identifier
hash_identifier(value) ==
    IF ~Truthy(value) THEN None ELSE Sha256Hex(Lower(Strip(value)))

\* shopmonkey.py normalize_us_phone
normalize_us_phone(raw) ==
    LET digits == OnlyDigits(raw)
    IN  IF digits = <<>> THEN <<>>
        ELSE IF Len(digits) = 10 THEN <<"+", "1">> \o digits
        ELSE IF Len(digits) = 11 /\ Head(digits) = "1" THEN <<"+">> \o digits
        ELSE IF ~(raw /= <<>> /\ Head(raw) = "+") THEN <<"+">> \o digits
        ELSE raw

(***************************************************************************)
(* Commerce API responses (shopmonkey.py fetch_orders_by_phone).            *)
(* A JSON value under a key is absent, a list, or some other truthy value.  *)
(***************************************************************************)
Absent == [tag |-> "absent", elems |-> <<>>]

ListOf(xs) == [tag |-> "list", elems |-> xs]

OtherValue == [tag |-> "other", elems |-> <<>>]

\* Python truthiness of a JSON value: absent (None) and [] are falsy.
JsonTruthy(v) == v.tag = "other" \/ (v.tag = "list" /\ v.elems /= <<>>)

JsonOr(a, b) == IF JsonTruthy(a) THEN a ELSE b

NoToken == [present |-> FALSE, tok |-> <<>>]

Token(t) == [present |-> TRUE, tok |-> t]

DictBody(data, orders, items, next, nextPageToken, pageToken) ==
    [isList |-> FALSE, elems |-> <<>>, data |-> data, orders |-> orders,
     items |-> items, next |-> next, nextPageToken |-> nextPageToken,
     pageToken |-> pageToken]

ListBody(xs) ==
    [isList |-> TRUE, elems |-> xs, data |-> Absent, orders |-> Absent,
     items |-> Absent, next |-> NoToken, nextPageToken |-> NoToken,
     pageToken |-> NoToken]

EmptyBody == DictBody(Absent, Absent, Absent, NoToken, NoToken, NoToken)

HttpResponse(status, html, marker, body) ==
    [kind |-> "http", status |-> status, html |-> html, marker |-> marker,
     body |-> body]

TransportFailure(kind) ==
    [kind |-> kind, status |-> 0, html |-> FALSE, marker |-> FALSE,
     body |-> EmptyBody]

FetchResult(kind, orders, err, requests) ==
    [kind |-> kind, orders |-> orders, err |-> err, requests |-> requests]

\* lines 83-90: the item list of a 2xx dict payload
PageItems(payload) ==
    LET items == JsonOr(payload.data, JsonOr(payload.orders,
                    JsonOr(payload.items, ListOf(<<>>))))
    IN  IF items.tag = "list" THEN items.elems ELSE <<>>

\* lines 93-99: the continuation-token key, discovered once
DiscoverTokenKey(key, payload) ==
    IF key /= "" THEN key
    ELSE IF payload.next.present THEN "next"
    ELSE IF payload.nextPageToken.present THEN "nextPageToken"
    ELSE IF payload.pageToken.present THEN "pageToken"
    ELSE ""

\* line 101
NextToken(key, payload) ==
    CASE key = "next" -> payload.next.tok
      [] key = "nextPageToken" -> payload.nextPageToken.tok
      [] key = "pageToken" -> payload.pageToken.tok
      [] OTHER -> <<>>

\* lines 48-110: the request loop, fed the upstream's responses in order.
\* "unfinished" means the loop asks for a response the script does not hold.
RECURSIVE FetchLoop(_, _, _, _, _, _)
FetchLoop(script, i, out, page, key, maxPages) ==
    IF i > Len(script) THEN FetchResult("unfinished", out, "", i - 1)
    ELSE
    LET resp == script[i] IN
    IF resp.kind = "ssl" THEN FetchResult("error", <<>>, "ssl", i)
    ELSE IF resp.kind = "network" THEN FetchResult("error", <<>>, "network", i)
    ELSE IF resp.status = 403 /\ resp.html /\ resp.marker
         THEN FetchResult("waf", <<>>, "waf", i)
    ELSE IF resp.status = 401 THEN FetchResult("error", <<>>, "401", i)
    ELSE IF resp.status = 429
         THEN FetchLoop(script, i + 1, out, page, key, maxPages)
    ELSE IF ~(200 <= resp.status /\ resp.status < 300)
         THEN FetchResult("error", <<>>, "http", i)
    ELSE IF resp.body.isList
         \* payload.get on a list raises AttributeError
         THEN FetchResult("error", <<>>, "attribute", i)
    ELSE
    LET payload == resp.body
        out2 == out \o PageItems(payload)
        key2 == DiscoverTokenKey(key, payload)
        next_token == NextToken(key2, payload)
    IN  IF ~Truthy(next_token) THEN FetchResult("orders", out2, "", i)
        ELSE IF page + 1 >= maxPages THEN FetchResult("orders", out2, "", i)
        ELSE FetchLoop(script, i + 1, out2, page + 1, key2, maxPages)

\* lines 34-37 and the loop
fetch_orders_by_phone(phone, maxPages, script) ==
    IF normalize_us_phone(phone) = <<>> THEN FetchResult("orders", <<>>, "", 0)
    ELSE FetchLoop(script, 1, <<>>, 0, "", maxPages)

(***************************************************************************)
(* The inputs the environment may deliver.                                  *)
(***************************************************************************)
OrderItem(id, archived, paid, invoiced, cents) ==
    [id |-> id, archived |-> archived, paid |-> paid, invoiced |-> invoiced,
     totalCostCents |-> cents]

Order1Closed == OrderItem(<<"o1">>, TRUE, FALSE, FALSE, 2500)

Order1Zero == OrderItem(<<"o1">>, TRUE, FALSE, FALSE, 0)

Order2Invoiced == OrderItem(<<"o2">>, FALSE, FALSE, TRUE, 1500)

Ok200(body) == HttpResponse(200, FALSE, FALSE, body)

DataPage(xs) == DictBody(ListOf(xs), Absent, Absent, NoToken, NoToken, NoToken)

Scripts ==
    { <<Ok200(DataPage(<<Order1Closed>>))>>,
      <<Ok200(DictBody(Absent, ListOf(<<Order1Zero>>), Absent,
                       NoToken, NoToken, NoToken))>>,
      <<Ok200(DictBody(Absent, Absent, ListOf(<<Order2Invoiced, Order1Closed>>),
                       NoToken, NoToken, NoToken))>>,
      <<Ok200(DictBody(ListOf(<<Order2Invoiced>>), Absent, Absent,
                       NoToken, Token(<<"t">>), NoToken)),
        Ok200(DataPage(<<Order1Closed>>))>>,
      <<Ok200(DataPage(<<>>))>>,
      <<HttpResponse(429, FALSE, FALSE, EmptyBody),
        Ok200(DataPage(<<Order1Closed>>))>>,
      <<HttpResponse(403, TRUE, TRUE, EmptyBody)>>,
      <<HttpResponse(403, TRUE, FALSE, EmptyBody)>>,
      <<HttpResponse(401, FALSE, FALSE, EmptyBody)>>,
      <<TransportFailure("network")>>,
      <<Ok200(ListBody(<<Order1Closed>>))>> }

PhoneA == <<"(", "5", "5", ")", " ", "5">>

PhoneOnes == <<"1", "1">>

PhoneNoDigits == <<"x">>

Gclid1 == <<"g1">>

EmailA == <<" ", "A", "@", "x">>

LeadInput(phone, gclid, email) ==
    [phone |-> phone, gclid |-> gclid, customer_email |-> email]

\* The fields of a webhook body the engine consumes.
LeadInputs ==
    { LeadInput(PhoneA, Gclid1, None),
      LeadInput(PhoneA, None, None),
      LeadInput(PhoneOnes, None, EmailA),
      LeadInput(PhoneOnes, None, None) }

\* <<lead_status, milestone names>> of a webhook body
SignalInputs == { <<"Qualified", {}>>, <<"new", {"qualified"}>>, <<"new", {}>> }

LowerStatus(st) ==
    CASE st \in {"Good", "GOOD"} -> "good"
      [] st = "Good_Lead" -> "good_lead"
      [] st \in {"Qualified", "QUALIFIED"} -> "qualified"
      [] st = "Qualified_Lead" -> "qualified_lead"
      [] st = "Previously_Marked_Good_Lead" -> "previously_marked_good_lead"
      [] st = "New" -> "new"
      [] OTHER -> st

\* views.py is_call_qualified
is_call_qualified(lead_status, milestones) ==
    \/ lead_status \in {"good", "good_lead", "qualified", "qualified_lead",
                        "previously_marked_good_lead"}
    \/ "qualified" \in milestones

(***************************************************************************)
(* State.                                                                   *)
(***************************************************************************)
VARIABLES
    leads,       \* CallRecord table: row id -> row, ids given in order
    orderTbl,    \* ShopmonkeyOrder table, committed rows
    convTbl,     \* OfflineConversion table, committed rows
    queue,       \* broker: <<lead, retries>> -> number of task messages
    wk,          \* the worker processes, each running process_call_record
    uploads,     \* the ad platform: upload call -> number of times received
    isolation,   \* transaction isolation of the deployment's database
    deliveries,  \* webhook deliveries so far
    runs,        \* task executions started so far
    overlapPassed, \* history: an execution for the same lead that overlapped
                   \* this worker's current one passed the processed check
    fx           \* a direct call of one of the helper functions: its
                 \* arguments and, once it has run, what it returned

vars == <<leads, orderTbl, convTbl, queue, wk, uploads, isolation,
          deliveries, runs, overlapPassed, fx>>

store == <<leads, orderTbl, convTbl>>

NoLead == [exists |-> FALSE, phone |-> <<>>, gclid |-> <<>>,
           customer_email |-> <<>>, processed |-> FALSE]

IdleWorker ==
    [pc |-> "idle", lead |-> 0, retries |-> 0, phone |-> <<>>, gclid |-> <<>>,
     orders |-> <<>>, idx |-> 0, created_any |-> FALSE,
     qualifying_found |-> FALSE, txOrders |-> {}, txConvs |-> {},
     hasSnap |-> FALSE, snap |-> {}, ups |-> <<>>, passed |-> FALSE,
     result |-> "", err |-> "", sched |-> <<>>]

TaskKeys == CallIds \X (0..max_retries)

\* No helper function is being called directly.
NoCall == [fn |-> "", arg |-> <<>>, out |-> <<>>, called |-> FALSE]

Init ==
    /\ leads = [c \in CallIds |-> NoLead]
    /\ orderTbl = {}
    /\ convTbl = {}
    /\ queue = [k \in TaskKeys |-> 0]
    /\ wk = [w \in Workers |-> IdleWorker]
    /\ uploads = << >>
    /\ isolation \in {"read_committed", "repeatable_read"}
    /\ deliveries = 0
    /\ runs = 0
    /\ overlapPassed = [w \in Workers |-> FALSE]
    /\ fx = NoCall

BagAdd(b, e) ==
    IF e \in DOMAIN b THEN [b EXCEPT ![e] = @ + 1] ELSE b @@ (e :> 1)

RECURSIVE Enqueue(_, _)
Enqueue(q, tasks) ==
    IF tasks = <<>> THEN q
    ELSE Enqueue([q EXCEPT ![<<Head(tasks).lead, Head(tasks).retries>>] = @ + 1],
                 Tail(tasks))

(***************************************************************************)
(* views.py callrail_webhook: get_or_create the CallRecord by its external  *)
(* id, then enqueue the task when the call is qualified.  A delivery is     *)
(* for an existing row or creates the row with the next id.                 *)
(***************************************************************************)
IsNextRow(c) == ~leads[c].exists /\ \A d \in CallIds : d < c => leads[d].exists

callrail_webhook_Overwrite(c, input, lead_status, milestones) ==
    /\ deliveries < MaxDeliveries
    /\ leads[c].exists \/ IsNextRow(c)
    /\ deliveries' = deliveries + 1
    /\ leads' = [leads EXCEPT ![c] =
                   [exists |-> TRUE, phone |-> input.phone,
                    gclid |-> input.gclid,
                    customer_email |-> input.customer_email,
                    processed |-> FALSE]]
    /\ queue' = IF is_call_qualified(lead_status, milestones)
                THEN Enqueue(queue, <<[lead |-> c, retries |-> 0]>>)
                ELSE queue
    /\ UNCHANGED <<orderTbl, convTbl, wk, uploads, isolation, fx, runs,
                   overlapPassed>>

callrail_webhook(c, input, lead_status, milestones) ==
    /\ deliveries < MaxDeliveries
    /\ leads[c].exists \/ IsNextRow(c)
    /\ deliveries' = deliveries + 1
    /\ leads' = IF leads[c].exists THEN leads
                ELSE [leads EXCEPT ![c] =
                        [exists |-> TRUE, phone |-> input.phone,
                         gclid |-> input.gclid,
                         customer_email |-> input.customer_email,
                         processed |-> FALSE]]
    /\ queue' = IF is_call_qualified(lead_status, milestones)
                THEN Enqueue(queue, <<[lead |-> c, retries |-> 0]>>)
                ELSE queue
    /\ UNCHANGED <<orderTbl, convTbl, wk, uploads, isolation, fx, runs,
                   overlapPassed>>

(***************************************************************************)
(* Celery's Task.retry as process_call_record uses it: the retry message    *)
(* (same task, retries + 1) is sent before the Retry exception is raised;   *)
(* past max_retries nothing is sent and the given exception, or             *)
(* MaxRetriesExceededError when none is given, is raised instead.           *)
(***************************************************************************)
CeleryRetry(lead, retries, countdown, hasExc) ==
    IF retries + 1 > max_retries
    THEN [enq |-> <<>>, sched |-> <<>>,
          raised |-> IF hasExc THEN "exc" ELSE "MaxRetriesExceededError"]
    ELSE [enq |-> <<[lead |-> lead, retries |-> retries + 1]>>,
          sched |-> <<countdown>>, raised |-> "Retry"]

\* How a step of an execution leaves it: still running as `me`, or ended
\* with a result, the task messages it sent and their countdowns.
Continues(me) ==
    [ended |-> FALSE, me |-> me, result |-> "", err |-> "", sched |-> <<>>,
     enq |-> <<>>]

Ends(result, err, sched, enq) ==
    [ended |-> TRUE,
     me |-> [IdleWorker EXCEPT !.pc = "done", !.result = result, !.err = err,
                               !.sched = sched],
     result |-> result, err |-> err, sched |-> sched, enq |-> enq]

\* An execution that ends by raising what a retry call raised.
EndsByRetry(r, err) ==
    Ends(IF r.raised = "Retry" THEN "retry" ELSE "failed", err, r.sched, r.enq)

Apply(w, out, overlap) ==
    /\ wk' = [wk EXCEPT ![w] =
                IF out.ended
                THEN [out.me EXCEPT !.lead = wk[w].lead,
                                    !.retries = wk[w].retries]
                ELSE out.me]
    /\ overlapPassed' = overlap
    /\ queue' = Enqueue(queue, out.enq)

Active(v) == wk[v].pc \in {"fetch", "lock", "loop"}

\* The CallRecord row lock (select_for_update) is held from line 76 to the
\* end of the atomic block.
HoldsLeadLock(v, lead) == wk[v].pc = "loop" /\ wk[v].lead = lead

\* A ShopmonkeyOrder row written in an open transaction is locked by it.
HoldsOrderLock(v, order_id) ==
    \E r \in wk[v].txOrders : r.order_id = order_id

(***************************************************************************)
(* A worker takes a task message and reads the lead without a lock          *)
(* (lines 52-54).  Idle workers are interchangeable: the first one takes    *)
(* the message.                                                             *)
(***************************************************************************)
StartTask(w, lead, retries) ==
    /\ wk[w].pc = "idle"
    /\ \A v \in Workers : v < w => Active(v)
    /\ runs < MaxRuns
    /\ queue[<<lead, retries>>] > 0
    /\ runs' = runs + 1
    /\ queue' = [queue EXCEPT ![<<lead, retries>>] = @ - 1]
    /\ wk' = [wk EXCEPT ![w] =
                [IdleWorker EXCEPT !.pc = "fetch", !.lead = lead,
                                   !.retries = retries,
                                   !.phone = leads[lead].phone,
                                   !.gclid = leads[lead].gclid]]
    /\ overlapPassed' = [overlapPassed EXCEPT ![w] =
                           \E v \in Workers \ {w} :
                               /\ Active(v) /\ wk[v].lead = lead
                               /\ wk[v].passed]
    /\ UNCHANGED <<leads, orderTbl, convTbl, uploads, isolation, fx,
                   deliveries>>

(***************************************************************************)
(* Step 1, lines 59-69.                                                     *)
(***************************************************************************)
OnWafBlocked_Retries(me) ==
    EndsByRetry(CeleryRetry(me.lead, me.retries, FetchErrorBackoff, TRUE), "waf")

\* lines 64-66: the bot-protection block ends the execution
OnWafBlocked(me) == Ends("waf_blocked", "waf", <<>>, <<>>)

\* lines 67-69: any other exception of the lookup
OnFetchError(me, err) ==
    EndsByRetry(CeleryRetry(me.lead, me.retries, FetchErrorBackoff, TRUE), err)

\* lines 61-63, then 67-69: the Retry (or MaxRetriesExceededError) raised
\* inside the try block is itself an Exception, so the handler of line 67
\* catches it and calls retry a second time.
OnNoOrders(me) ==
    LET first == CeleryRetry(me.lead, me.retries, LongBackoff, FALSE)
        second == CeleryRetry(me.lead, me.retries, FetchErrorBackoff, TRUE)
    IN  Ends(IF second.raised = "Retry" THEN "retry" ELSE "failed",
             "no_orders", first.sched \o second.sched, first.enq \o second.enq)

OnOrders_Locked(me, orders) ==
    Continues([me EXCEPT !.pc = "loop", !.idx = 1, !.orders = orders])

\* line 60 returned a non-empty list: on to the atomic block of line 75
OnOrders(me, orders) == Continues([me EXCEPT !.pc = "lock", !.orders = orders])

FetchOutcome(me, res) ==
    CASE res.kind = "waf" -> OnWafBlocked(me)
      [] res.kind = "error" -> OnFetchError(me, res.err)
      [] res.kind = "orders" /\ res.orders = <<>> -> OnNoOrders(me)
      [] OTHER -> OnOrders(me, res.orders)

FetchOrders(w, script) ==
    /\ wk[w].pc = "fetch"
    /\ LET res == fetch_orders_by_phone(wk[w].phone, max_pages, script)
       IN  /\ res.kind /= "unfinished"
           /\ Apply(w, FetchOutcome(wk[w], res), overlapPassed)
    /\ UNCHANGED <<leads, orderTbl, convTbl, uploads, isolation, fx,
                   deliveries, runs>>

(***************************************************************************)
(* Lines 75-79: enter the atomic block, lock the row, re-read processed.    *)
(***************************************************************************)
LeadLockFree_NoLock(w, lead) == TRUE

LeadLockFree(w, lead) == \A v \in Workers \ {w} : ~HoldsLeadLock(v, lead)

ProcessedCheck_Ignored(row) == FALSE

ProcessedCheck(row) == row.processed

AcquireLock(w) ==
    /\ wk[w].pc = "lock"
    /\ LeadLockFree(w, wk[w].lead)
    /\ IF ProcessedCheck(leads[wk[w].lead])
       THEN Apply(w, Ends("already_processed", "", <<>>, <<>>), overlapPassed)
       ELSE Apply(w, Continues([wk[w] EXCEPT !.pc = "loop", !.idx = 1,
                                             !.passed = TRUE]),
                  [v \in Workers |->
                     IF v /= w /\ Active(v) /\ wk[v].lead = wk[w].lead
                     THEN TRUE ELSE overlapPassed[v]])
    /\ UNCHANGED <<leads, orderTbl, convTbl, uploads, isolation, fx,
                   deliveries, runs>>

(***************************************************************************)
(* The ad platform's upload clients (google_ads.py).                        *)
(***************************************************************************)
NoResponse == [isNone |-> TRUE, isDict |-> FALSE, results |-> <<>>,
               partial |-> FALSE, error |-> FALSE]

GclidPlatformOutcomes == {"accepted", "partial_failure", "GoogleAdsException"}

EnhancedPlatformOutcomes == {"accepted", "partial_failure", "no_result"}

\* upload_gclid_conversion, lines 98-133: a dict in every case; the
\* GoogleAdsException of the service call is caught and returned as data.
upload_gclid_conversion(platform) ==
    [raised |-> FALSE,
     resp |-> CASE platform = "accepted" ->
                     [isNone |-> FALSE, isDict |-> TRUE,
                      results |-> <<"result">>, partial |-> FALSE,
                      error |-> FALSE]
                [] platform = "partial_failure" ->
                     [isNone |-> FALSE, isDict |-> TRUE, results |-> <<>>,
                      partial |-> TRUE, error |-> FALSE]
                [] OTHER ->
                     [isNone |-> FALSE, isDict |-> TRUE, results |-> <<>>,
                      partial |-> FALSE, error |-> TRUE]]

\* upload_enhanced_conversion is imported by tasks.py but is not part of the
\* sources at hand: the platform's response object, or None.
upload_enhanced_conversion(platform) ==
    [raised |-> FALSE,
     resp |-> CASE platform = "accepted" ->
                     [isNone |-> FALSE, isDict |-> FALSE,
                      results |-> <<"result">>, partial |-> FALSE,
                      error |-> FALSE]
                [] platform = "partial_failure" ->
                     [isNone |-> FALSE, isDict |-> FALSE, results |-> <<>>,
                      partial |-> TRUE, error |-> FALSE]
                [] OTHER -> NoResponse]

\* line 170: getattr(resp, "results", []) or []  (a dict has no attribute)
UploadResponseField(resp) ==
    IF resp.isNone \/ resp.isDict THEN <<>> ELSE resp.results

(***************************************************************************)
(* Lines 81-173: one iteration of the loop over the fetched orders.         *)
(***************************************************************************)
IsFinalized_AnyFlag(o) == o.archived \/ o.paid \/ o.invoiced

\* line 95
IsFinalized(o) ==
    (o.archived \/ o.paid \/ o.invoiced) /\ o.totalCostCents > 0

ConversionValue_Cents(total_cents) == <<total_cents, 0>>

\* line 112: Decimal(total_cents) / Decimal(100), as <<units, hundredths>>
ConversionValue(total_cents) ==
    IF total_cents /= 0 THEN <<total_cents \div 100, total_cents % 100>>
    ELSE <<0, 0>>

\* line 166
LedgerKey(gclid, phone_hash, email_hash) == Or(gclid, Or(phone_hash, email_hash))

\* lines 102-110: update_or_create by order_id, inside the transaction
UpsertOrder(txOrders, order_id, phone, total_cents, archived) ==
    {r \in txOrders : r.order_id /= order_id}
        \cup {[order_id |-> order_id, phone |-> phone,
               total_cents |-> total_cents, archived |-> archived]}

\* What a plain read of OfflineConversion sees inside the transaction: the
\* committed rows (or, under repeatable read, the rows committed when the
\* transaction first read the table) overlaid with its own writes.
ReadBase(me) ==
    IF isolation = "repeatable_read" /\ me.hasSnap THEN me.snap ELSE convTbl

ConvView(me) ==
    {c \in ReadBase(me) : \A t \in me.txConvs : t.pk /= c.pk} \cup me.txConvs

\* models.py 38-44: the table accepts any row; nothing constrains
\* (gclid, order) to be unique.
InsertAllowed(committed, key, order_id) == TRUE

\* lines 165-172: get_or_create on (gclid, order), then the update
LedgerWrite(view, key, order_id, value, resp, pk) ==
    LET found == {c \in view : c.key = key /\ c.order = order_id}
    IN  IF Cardinality(found) > 1
        THEN [raised |-> "MultipleObjectsReturned", rows |-> {},
              inserted |-> FALSE]
        ELSE IF found = {}
        THEN IF InsertAllowed(convTbl, key, order_id)
             THEN [raised |-> "",
                   rows |-> {[pk |-> pk, key |-> key, order |-> order_id,
                              value |-> value, uploaded |-> TRUE,
                              upload_response |-> UploadResponseField(resp)]},
                   inserted |-> TRUE]
             ELSE [raised |-> "IntegrityError", rows |-> {}, inserted |-> FALSE]
        ELSE [raised |-> "",
              rows |-> {[c EXCEPT !.uploaded = TRUE,
                                  !.upload_response = UploadResponseField(resp)]
                        : c \in found},
              inserted |-> FALSE]

\* The primary key of a new OfflineConversion row.  The database numbers the
\* rows as they are inserted; the model names a row by the lead whose
\* execution inserts it and the order, which no two committed rows share.
NewPk(lead, order_id) == <<lead, order_id>>

UploadCall(path, key, order_id, platform) ==
    [path |-> path, key |-> key, order |-> order_id, outcome |-> platform]

UsesGclidPath_Never(me) == FALSE

\* line 117
UsesGclidPath(me) == Truthy(me.gclid)

\* lines 140-143
PhoneHash(me) == hash_identifier(normalize_phone(leads[me.lead].phone))

EmailHash(me) == hash_identifier(leads[me.lead].customer_email)

HasIdentifier_Always(me) == TRUE

HasIdentifier(me) ==
    UsesGclidPath(me) \/ Truthy(PhoneHash(me)) \/ Truthy(EmailHash(me))

\* The row of lines 102-110 written and locked, qualifying_found set.
Upserted(me, o) ==
    [me EXCEPT !.qualifying_found = TRUE,
               !.txOrders = UpsertOrder(@, o.id, leads[me.lead].phone,
                                        o.totalCostCents, o.archived)]

\* The upload and the ledger write of a finalized order (lines 117-173).
UploadAndRecord(w, o, platform) ==
    LET me == wk[w]
        key == LedgerKey(me.gclid, PhoneHash(me), EmailHash(me))
        up == IF UsesGclidPath(me) THEN upload_gclid_conversion(platform)
              ELSE upload_enhanced_conversion(platform)
        call == UploadCall(IF UsesGclidPath(me) THEN "gclid" ELSE "enhanced",
                           key, o.id, platform)
        reading == [Upserted(me, o) EXCEPT
                      !.hasSnap = (isolation = "repeatable_read"),
                      !.snap = IF isolation = "repeatable_read" /\ ~me.hasSnap
                               THEN convTbl ELSE @,
                      !.ups = Append(@, [order |-> o.id, outcome |-> platform])]
        lw == LedgerWrite(ConvView(reading), key, o.id,
                          ConversionValue(o.totalCostCents), up.resp,
                          NewPk(me.lead, o.id))
        out == IF up.raised
               THEN EndsByRetry(CeleryRetry(me.lead, me.retries,
                                            UploadErrorBackoff, TRUE),
                                "GoogleAdsException")
               ELSE IF lw.raised /= ""
               THEN Ends("failed", lw.raised, <<>>, <<>>)
               ELSE Continues([reading EXCEPT
                                 !.txConvs = {t \in @ : \A n \in lw.rows :
                                                           n.pk /= t.pk}
                                                \cup lw.rows,
                                 !.created_any = TRUE,
                                 !.idx = @ + 1])
    IN  /\ platform \in (IF UsesGclidPath(me) THEN GclidPlatformOutcomes
                         ELSE EnhancedPlatformOutcomes)
        /\ uploads' = BagAdd(uploads, call)
        /\ Apply(w, out, overlapPassed)

ProcessOrder(w, platform) ==
    /\ wk[w].pc = "loop"
    /\ wk[w].idx <= Len(wk[w].orders)
    /\ LET me == wk[w]
           o == me.orders[me.idx]
       IN  IF ~IsFinalized(o)
           THEN \* lines 95-97
                /\ platform = "accepted"
                /\ Apply(w, Continues([me EXCEPT !.idx = @ + 1]), overlapPassed)
                /\ UNCHANGED uploads
           ELSE /\ \A v \in Workers \ {w} : ~HoldsOrderLock(v, o.id)
                /\ IF HasIdentifier(me)
                   THEN UploadAndRecord(w, o, platform)
                   ELSE \* lines 143-145
                        /\ platform = "accepted"
                        /\ Apply(w, Continues([Upserted(me, o) EXCEPT
                                                 !.idx = @ + 1]),
                                 overlapPassed)
                        /\ UNCHANGED uploads
    /\ UNCHANGED <<leads, orderTbl, convTbl, isolation, fx, deliveries, runs>>

(***************************************************************************)
(* Lines 175-184: mark the lead processed and commit, or retry.             *)
(***************************************************************************)
MarksProcessed_Always(me) == TRUE

MarksProcessed(me) == me.created_any \/ me.qualifying_found

ReturnStatus_Ok(me) == "ok"

\* line 184
ReturnStatus(me) == IF me.created_any THEN "ok" ELSE "pending_orders"

CommitOrders(tbl, tx) ==
    {r \in tbl : \A t \in tx : t.order_id /= r.order_id} \cup tx

CommitConvs(tbl, tx) ==
    {c \in tbl : \A t \in tx : t.pk /= c.pk} \cup tx

Finalize(w) ==
    /\ wk[w].pc = "loop"
    /\ wk[w].idx > Len(wk[w].orders)
    /\ IF MarksProcessed(wk[w])
       THEN /\ leads' = [leads EXCEPT ![wk[w].lead].processed = TRUE]
            /\ orderTbl' = CommitOrders(orderTbl, wk[w].txOrders)
            /\ convTbl' = CommitConvs(convTbl, wk[w].txConvs)
            /\ Apply(w, Ends(ReturnStatus(wk[w]), "", <<>>, <<>>), overlapPassed)
       ELSE \* lines 179-181
            /\ Apply(w, EndsByRetry(CeleryRetry(wk[w].lead, wk[w].retries,
                                                LongBackoff, FALSE),
                                    "none_finalized"),
                     overlapPassed)
            /\ UNCHANGED <<leads, orderTbl, convTbl>>
    /\ UNCHANGED <<uploads, isolation, fx, deliveries, runs>>

(***************************************************************************)
(* The task's return value or exception has been handed back to Celery:    *)
(* the worker process is free for the next message.                         *)
(***************************************************************************)
Release(w) ==
    /\ wk[w].pc = "done"
    /\ wk' = [wk EXCEPT ![w] = IdleWorker]
    /\ overlapPassed' = [overlapPassed EXCEPT ![w] = FALSE]
    /\ UNCHANGED <<leads, orderTbl, convTbl, queue, uploads, isolation, fx,
                   deliveries, runs>>

(***************************************************************************)
(* The system.                                                              *)
(***************************************************************************)
Deliver ==
    \E c \in CallIds, input \in LeadInputs, sig \in SignalInputs :
        callrail_webhook(c, input, LowerStatus(sig[1]), sig[2])

Take(w) == \E l \in CallIds, r \in 0..max_retries : StartTask(w, l, r)

Fetch(w) == \E script \in Scripts : FetchOrders(w, script)

Iterate(w) ==
    \E platform \in GclidPlatformOutcomes \cup EnhancedPlatformOutcomes :
        ProcessOrder(w, platform)

WorkerStep(w) ==
    \/ Take(w) \/ Fetch(w) \/ AcquireLock(w) \/ Iterate(w) \/ Finalize(w)
    \/ Release(w)

Next == Deliver \/ \E w \in Workers : WorkerStep(w)

Spec == Init /\ [][Next]_vars

\* Executions that never overlap: a worker takes a message only while no
\* other execution is in progress.
StartTaskSeq(w, lead, retries) ==
    /\ \A v \in Workers \ {w} : ~Active(v)
    /\ StartTask(w, lead, retries)

TakeSeq(w) == \E l \in CallIds, r \in 0..max_retries : StartTaskSeq(w, l, r)

NextSeq ==
    \/ Deliver
    \/ \E w \in Workers :
          \/ TakeSeq(w) \/ Fetch(w) \/ AcquireLock(w) \/ Iterate(w)
          \/ Finalize(w) \/ Release(w)

SpecSeq == Init /\ [][NextSeq]_vars

(***************************************************************************)
(* The engine at work on a store that earlier executions have left with      *)
(* two ledger rows for one (matching key, order).  Leads 1 and 2 share a     *)
(* phone and have no click identifier; under repeatable read their           *)
(* overlapping executions have each inserted a row for order o1 and          *)
(* committed.  A third call from the same phone has just been received       *)
(* and its task is queued.  The counters of deliveries and runs count from   *)
(* here.                                                                     *)
(***************************************************************************)
SharedKey == hash_identifier(normalize_phone(PhoneA))

LedgerRow(pk, o, platform) ==
    [pk |-> pk, key |-> SharedKey, order |-> o.id,
     value |-> ConversionValue(o.totalCostCents), uploaded |-> TRUE,
     upload_response |->
         UploadResponseField(upload_enhanced_conversion(platform).resp)]

MirrorRow(o) ==
    [order_id |-> o.id, phone |-> PhoneA, total_cents |-> o.totalCostCents,
     archived |-> o.archived]

InitDup ==
    /\ leads = [c \in CallIds |->
                  IF c <= 3
                  THEN [exists |-> TRUE, phone |-> PhoneA, gclid |-> None,
                        customer_email |-> None, processed |-> c < 3]
                  ELSE NoLead]
    /\ orderTbl = {MirrorRow(Order2Invoiced), MirrorRow(Order1Closed)}
    /\ convTbl = {LedgerRow(NewPk(1, Order2Invoiced.id), Order2Invoiced,
                            "no_result"),
                  LedgerRow(NewPk(1, Order1Closed.id), Order1Closed,
                            "accepted"),
                  LedgerRow(NewPk(2, Order1Closed.id), Order1Closed,
                            "accepted")}
    /\ queue = [k \in TaskKeys |-> IF k = <<3, 0>> THEN 1 ELSE 0]
    /\ wk = [w \in Workers |-> IdleWorker]
    /\ uploads =
          (UploadCall("enhanced", SharedKey, Order2Invoiced.id, "no_result")
               :> 1)
          @@ (UploadCall("enhanced", SharedKey, Order1Closed.id, "accepted")
               :> 2)
    /\ isolation = "repeatable_read"
    /\ deliveries = 0
    /\ runs = 0
    /\ overlapPassed = [w \in Workers |-> FALSE]
    /\ fx = NoCall

SpecDup == InitDup /\ [][Next]_vars

(***************************************************************************)
(* The helper functions called directly, on arguments of their own: the     *)
(* call is chosen at the start and the one step runs the function.          *)
(***************************************************************************)
program == <<leads, orderTbl, convTbl, queue, wk, uploads, isolation,
             deliveries, runs, overlapPassed>>

PhoneChars == {"1", "5", "("}

PhoneInputs == UNION {[1..n -> PhoneChars] : n \in 0..MaxPhoneLen}

StatusInputs ==
    {"good", "good_lead", "qualified", "qualified_lead",
     "previously_marked_good_lead", "Good", "GOOD", "Good_Lead", "Qualified",
     "QUALIFIED", "Qualified_Lead", "Previously_Marked_Good_Lead", "new",
     "New", "", "bad_lead", "qualifiedx"}

MilestoneInputs == SUBSET {"qualified", "Qualified", "answered"}

Responses ==
    { HttpResponse(429, FALSE, FALSE, EmptyBody),
      HttpResponse(403, TRUE, TRUE, EmptyBody),
      HttpResponse(401, FALSE, FALSE, EmptyBody),
      TransportFailure("network"),
      Ok200(EmptyBody),
      Ok200(DataPage(<<Order1Closed>>)),
      Ok200(DictBody(ListOf(<<Order2Invoiced>>), Absent, Absent,
                     Token(<<"t">>), NoToken, NoToken)),
      Ok200(DictBody(Absent, ListOf(<<Order1Closed>>), Absent,
                     NoToken, NoToken, NoToken)),
      Ok200(DictBody(Absent, Absent, ListOf(<<Order2Invoiced>>),
                     NoToken, NoToken, NoToken)),
      Ok200(DictBody(ListOf(<<Order1Closed>>), ListOf(<<Order2Invoiced>>),
                     ListOf(<<Order1Zero>>), NoToken, NoToken, NoToken)),
      Ok200(DictBody(OtherValue, ListOf(<<Order1Closed>>), Absent,
                     NoToken, NoToken, NoToken)),
      Ok200(ListBody(<<Order1Closed>>)) }

ScriptInputs == UNION {[1..n -> Responses] : n \in 1..MaxResponses}

CallOf(fn, arg) == [fn |-> fn, arg |-> arg, out |-> <<>>, called |-> FALSE]

HelperCalls ==
    {CallOf("normalize_phone", p) : p \in PhoneInputs}
    \cup {CallOf("is_call_qualified", [lead_status |-> st, milestones |-> ms]) :
            st \in StatusInputs, ms \in MilestoneInputs}
    \cup {CallOf("fetch_orders_by_phone",
                 [phone |-> PhoneA, maxPages |-> m, script |-> sc]) :
            m \in 1..MaxPagesArg, sc \in ScriptInputs}

InitFn ==
    /\ leads = [c \in CallIds |-> NoLead]
    /\ orderTbl = {}
    /\ convTbl = {}
    /\ queue = [k \in TaskKeys |-> 0]
    /\ wk = [w \in Workers |-> IdleWorker]
    /\ uploads = << >>
    /\ isolation = "read_committed"
    /\ deliveries = 0
    /\ runs = 0
    /\ overlapPassed = [w \in Workers |-> FALSE]
    /\ fx \in HelperCalls

Returns(out) ==
    /\ ~fx.called
    /\ fx' = [fx EXCEPT !.out = out, !.called = TRUE]
    /\ UNCHANGED program

CallNormalizePhone ==
    /\ fx.fn = "normalize_phone"
    /\ Returns(normalize_phone(fx.arg))

CallIsCallQualified ==
    /\ fx.fn = "is_call_qualified"
    /\ Returns(is_call_qualified(fx.arg.lead_status, fx.arg.milestones))

\* The upstream answers the requests of the call with the responses of the
\* script, in order.
CallFetchOrders ==
    /\ fx.fn = "fetch_orders_by_phone"
    /\ Returns(fetch_orders_by_phone(fx.arg.phone, fx.arg.maxPages,
                                     fx.arg.script))

NextFn == CallNormalizePhone \/ CallIsCallQualified \/ CallFetchOrders

SpecFn == InitFn /\ [][NextFn]_vars

(***************************************************************************)
(* Properties.                                                              *)
(***************************************************************************)
Keys == {c.key : c \in DOMAIN uploads} \cup {c.key : c \in convTbl}

OrderIds == {c.order : c \in DOMAIN uploads} \cup {c.order : c \in convTbl}

Received(call) == IF call \in DOMAIN uploads THEN uploads[call] ELSE 0

\* Upload calls for (key, order) that the platform accepted.
SuccessfulUploads(key, order_id) ==
    Received(UploadCall("gclid", key, order_id, "accepted"))
        + Received(UploadCall("enhanced", key, order_id, "accepted"))

RowsFor(tbl, key, order_id) == {c \in tbl : c.key = key /\ c.order = order_id}

\* C1: whatever the deliveries, retries and interleavings, the ad platform
\* receives at most one successful upload call for any (matching key, order).
C1_AtMostOneSuccessfulUpload ==
    \A k \in Keys, o \in OrderIds : SuccessfulUploads(k, o) <= 1

\* C2: the committed OfflineConversion table never holds two rows for the
\* same (matching key, order).
C2_LedgerPairUnique ==
    \A k \in Keys, o \in OrderIds : Cardinality(RowsFor(convTbl, k, o)) <= 1

\* The step is one of worker w's execution.
StepOf(w) == wk'[w] /= wk[w]

\* Worker w's execution ends in this step.
EndsNow(w) == Active(w) /\ wk'[w].pc = "done"

\* The matching key of the lead a worker is processing (line 166).
KeyOf(me) == LedgerKey(me.gclid, PhoneHash(me), EmailHash(me))

\* C3: of two executions in succession for the same lead, the first, when
\* it completes with a finalized order, leaves the lead processed and exactly
\* one OfflineConversion row for each (matching key, order) it handled, and
\* no pair with more than one row; the second, reaching the critical section
\* with the same orders, returns already_processed and changes nothing.
C3_FirstCompletes(w) ==
    (wk[w].pc = "loop" /\ EndsNow(w) /\ wk'[w].result \in {"ok", "pending_orders"})
        => /\ leads'[wk[w].lead].processed
           /\ \A i \in 1..Len(wk[w].orders) :
                 (IsFinalized(wk[w].orders[i]) /\ HasIdentifier(wk[w]))
                    => Cardinality(RowsFor(convTbl', KeyOf(wk[w]),
                                           wk[w].orders[i].id)) = 1
           /\ \A c \in convTbl' : Cardinality(RowsFor(convTbl', c.key, c.order)) = 1

C3_SecondIsNoOp(w) ==
    (wk[w].pc = "lock" /\ StepOf(w) /\ leads[wk[w].lead].processed)
        => /\ wk'[w].pc = "done"
           /\ wk'[w].result = "already_processed"
           /\ UNCHANGED <<leads, orderTbl, convTbl, uploads, queue>>

C3_Idempotent ==
    [][\A w \in Workers : C3_FirstCompletes(w) /\ C3_SecondIsNoOp(w)]_vars

\* C3 witness: a second execution for a lead has returned already_processed
\* while the lead's ledger row of the first execution is in place.
C3_Witness ==
    \E w \in Workers :
        /\ wk[w].pc = "done" /\ wk[w].result = "already_processed"
        /\ wk[w].retries = 0
        /\ \E c \in convTbl : c.pk[1] = wk[w].lead /\ c.uploaded

\* C4 as stated: two overlapping executions for the same lead never both
\* pass the processed check inside the critical section.
C4_NeverBothPass ==
    \A w \in Workers : ~(wk[w].passed /\ overlapPassed[w])

\* C4, amended: two executions for the same lead are never inside the
\* critical section together, and the one that takes the row lock after
\* processed = true was committed leaves as a no-op (already_processed, no
\* upload call, no store write, no task scheduled); both have passed the
\* check only while the lead is still unprocessed.
C4_MutualExclusion ==
    \A w, v \in Workers :
        (w /= v /\ wk[w].pc = "loop" /\ wk[v].pc = "loop")
            => wk[w].lead /= wk[v].lead

C4_BothPassedOnlyUnprocessed ==
    \A w \in Workers :
        (wk[w].passed /\ overlapPassed[w]) => ~leads[wk[w].lead].processed

C4_LaterIsNoOp ==
    \A w \in Workers :
        (wk[w].pc = "lock" /\ StepOf(w) /\ overlapPassed[w]
         /\ leads[wk[w].lead].processed)
            => /\ wk'[w].pc = "done"
               /\ wk'[w].result = "already_processed"
               /\ wk'[w].sched = <<>>
               /\ UNCHANGED <<leads, orderTbl, convTbl, uploads, queue>>

C4_Serialized ==
    /\ [](C4_MutualExclusion /\ C4_BothPassedOnlyUnprocessed)
    /\ [][C4_LaterIsNoOp]_vars

\* C4 witness: an execution that overlapped one which passed the check has
\* left with already_processed.
C4_Witness ==
    \E w \in Workers :
        /\ wk[w].pc = "done" /\ overlapPassed[w]
        /\ wk[w].result = "already_processed"

\* C5: processed never goes from true to false; a step that changes it is
\* the commit of the execution holding the lead's row lock; a webhook
\* delivery for an existing external id leaves the row as it is.
C5_Step ==
    /\ \A l \in CallIds :
          /\ leads[l].processed => leads'[l].processed
          /\ (leads'[l].processed /= leads[l].processed)
                => \E w \in Workers : HoldsLeadLock(w, l) /\ EndsNow(w)
    /\ (deliveries' /= deliveries)
          => \A l \in CallIds : leads[l].exists => leads'[l] = leads[l]

C5_ProcessedMonotonic == [][C5_Step]_vars

\* C5 witness: the one lead there is has been processed and its external id
\* has been delivered twice.
C5_Witness ==
    /\ deliveries = 2
    /\ leads[1].processed
    /\ ~leads[2].exists

\* C6: a step of an execution whose lead is already processed makes no
\* upload call and writes none of the three tables; at the critical section
\* it ends with already_processed.
C6_Step ==
    \A w \in Workers :
        (Active(w) /\ StepOf(w) /\ leads[wk[w].lead].processed)
            => /\ UNCHANGED <<leads, orderTbl, convTbl, uploads>>
               /\ wk[w].pc /= "loop"
               /\ wk[w].pc = "lock"
                     => (wk'[w].pc = "done"
                         /\ wk'[w].result = "already_processed")

C6_ProcessedTerminal == [][C6_Step]_vars

\* C6 witness: an execution started for a lead has found it processed and
\* returned already_processed, the uploads being those of the earlier run.
C6_Witness ==
    \E w \in Workers :
        /\ wk[w].pc = "done" /\ wk[w].result = "already_processed"
        /\ leads[wk[w].lead].processed
        /\ uploads /= << >>

\* The upload of the execution's single order was accepted by the platform.
C7_Accepted(w) ==
    \/ wk[w].ups = <<[order |-> wk[w].orders[1].id, outcome |-> "accepted"]>>
    \/ /\ wk[w].idx = 1
       /\ uploads' = BagAdd(uploads, UploadCall("gclid", wk[w].gclid,
                                                wk[w].orders[1].id, "accepted"))

\* C7: an execution for a lead with click identifier X whose lookup returned
\* one finalized order of c minor units, the ledger holding no row for
\* (X, order) before, and whose upload was accepted, ends returning ok with
\* the lead processed and exactly one row for (X, order): value c/100 in
\* units and hundredths, uploaded.
C7_Step ==
    \A w \in Workers :
        (/\ wk[w].pc = "loop" /\ EndsNow(w)
         /\ Truthy(wk[w].gclid)
         /\ Len(wk[w].orders) = 1 /\ IsFinalized(wk[w].orders[1])
         /\ RowsFor(convTbl, wk[w].gclid, wk[w].orders[1].id) = {}
         /\ C7_Accepted(w))
            => LET o == wk[w].orders[1]
                   rows == RowsFor(convTbl', wk[w].gclid, o.id)
               IN  /\ wk'[w].result = "ok"
                   /\ leads'[wk[w].lead].processed
                   /\ Cardinality(rows) = 1
                   /\ \A r \in rows :
                         /\ r.uploaded
                         /\ r.value[1] * 100 + r.value[2] = o.totalCostCents
                         /\ r.value[2] \in 0..99
                         /\ (o.totalCostCents = 2500 => r.value = <<25, 0>>)

C7_GclidScenario == [][C7_Step]_vars

\* C7 witness: the scenario's end state for the order of 2500 minor units.
C7_Witness ==
    \E w \in Workers :
        /\ wk[w].pc = "done" /\ wk[w].result = "ok"
        /\ leads[wk[w].lead].processed
        /\ leads[wk[w].lead].gclid = Gclid1
        /\ convTbl = {[pk |-> <<wk[w].lead, Order1Closed.id>>, key |-> Gclid1,
                       order |-> Order1Closed.id, value |-> <<25, 0>>,
                       uploaded |-> TRUE, upload_response |-> <<>>]}

\* C8: an execution whose lookup returned zero orders, below the retry cap,
\* has scheduled one retry, with the long backoff, and nothing else.
C8_OneLongBackoffRetry ==
    \A w \in Workers :
        (wk[w].pc = "done" /\ wk[w].err = "no_orders"
         /\ wk[w].retries < max_retries)
            => wk[w].sched = <<LongBackoff>>

\* C9: fetch_orders_by_phone answers a 403 carrying an HTML bot-protection
\* body by raising the bot-protection error at that request, none following
\* it; the execution then returns waf_blocked, schedules nothing, makes no
\* upload call and leaves the store unchanged.
C9_WafRequest(script, i) ==
    /\ i \in 1..Len(script)
    /\ script[i].kind = "http" /\ script[i].status = 403
    /\ script[i].html /\ script[i].marker

C9_FetchRaisesAtOnce ==
    \A script \in Scripts :
        LET res == fetch_orders_by_phone(PhoneA, max_pages, script)
        IN  /\ C9_WafRequest(script, 1) => (res.kind = "waf" /\ res.requests = 1)
            /\ res.kind = "waf" => C9_WafRequest(script, res.requests)

C9_Step ==
    \A w \in Workers, script \in Scripts :
        (/\ wk[w].pc = "fetch"
         /\ fetch_orders_by_phone(wk[w].phone, max_pages, script).kind = "waf"
         /\ FetchOrders(w, script))
            => /\ wk'[w].pc = "done"
               /\ wk'[w].result = "waf_blocked"
               /\ wk'[w].sched = <<>>
               /\ UNCHANGED <<leads, orderTbl, convTbl, uploads, queue>>

C9_WafBlocked == [](C9_FetchRaisesAtOnce) /\ [][C9_Step]_vars

\* C9 witness: an execution has returned waf_blocked.
C9_Witness ==
    \E w \in Workers :
        /\ wk[w].pc = "done" /\ wk[w].result = "waf_blocked"
        /\ wk[w].err = "waf"

\* C10: an execution whose lookup got a 401 ends in a failure and has
\* scheduled no further attempt.
C10_AuthFailureIsTerminal ==
    \A w \in Workers :
        (wk[w].pc = "done" /\ wk[w].err = "401")
            => (wk[w].result = "failed" /\ wk[w].sched = <<>>)

\* C11: a click-identifier upload that hit a hard platform exception ends
\* the execution there: no execution goes on past such an upload, and the
\* execution it ended has scheduled one retry at the medium backoff (below
\* the retry cap).
C11_HardErrorAborts ==
    \A w \in Workers :
        /\ \A i \in 1..Len(wk[w].ups) :
              wk[w].ups[i].outcome /= "GoogleAdsException"
        /\ (wk[w].pc = "done" /\ wk[w].err = "GoogleAdsException"
            /\ wk[w].retries < max_retries)
              => wk[w].sched = <<UploadErrorBackoff>>

\* Upload calls for (key, order) that the platform answered with a result:
\* accepted, or accepted with a partial failure.
CompletedUploads(key, order_id) ==
    SuccessfulUploads(key, order_id)
        + Received(UploadCall("gclid", key, order_id, "partial_failure"))
        + Received(UploadCall("enhanced", key, order_id, "partial_failure"))

\* C12: a committed OfflineConversion row is uploaded only if the platform
\* has answered an upload call for its (matching key, order) with a result;
\* an error or an empty answer alone never leaves an uploaded row.
C12_UploadedOnlyAfterSuccess ==
    \A c \in convTbl :
        c.uploaded => CompletedUploads(c.key, c.order) >= 1

\* Some order returned to the execution is finalized.
SomeFinalized(me) ==
    \E i \in 1..Len(me.orders) : IsFinalized(me.orders[i])

\* C13: the step that ends the critical section after the last order sets
\* processed exactly when one of the returned orders was finalized, whether
\* or not an upload was made or accepted for it; when none was, processed
\* stays false, nothing is committed and one retry is scheduled at the long
\* backoff (none once the retry cap is reached).
C13_Step ==
    \A w \in Workers :
        (wk[w].pc = "loop" /\ wk[w].idx > Len(wk[w].orders) /\ StepOf(w))
            => /\ wk'[w].pc = "done"
               /\ leads'[wk[w].lead].processed = SomeFinalized(wk[w])
               /\ ~SomeFinalized(wk[w])
                     => /\ UNCHANGED <<leads, orderTbl, convTbl>>
                        /\ wk'[w].sched =
                              IF wk[w].retries < max_retries
                              THEN <<LongBackoff>> ELSE <<>>
                        /\ wk'[w].result =
                              IF wk[w].retries < max_retries
                              THEN "retry" ELSE "failed"

C13_ProcessedIffFinalized == [][C13_Step]_vars

\* C13 witness: an execution has marked its lead processed for a finalized
\* order without any upload call, and another has ended in the long-backoff
\* retry with its lead still unprocessed.
C13_Witness ==
    \E w, v \in Workers :
        /\ wk[w].pc = "done" /\ wk[w].result = "pending_orders"
        /\ leads[wk[w].lead].processed
        /\ wk[v].pc = "done" /\ wk[v].err = "none_finalized"
        /\ wk[v].sched = <<LongBackoff>>
        /\ ~leads[wk[v].lead].processed

\* C14: a step that processes a finalized order for which the committed
\* ledger already holds an uploaded row for the same (matching key, order)
\* makes no upload call.
C14_Step ==
    \A w \in Workers :
        (/\ wk[w].pc = "loop" /\ StepOf(w)
         /\ wk[w].idx <= Len(wk[w].orders)
         /\ IsFinalized(wk[w].orders[wk[w].idx])
         /\ \E c \in RowsFor(convTbl, KeyOf(wk[w]),
                             wk[w].orders[wk[w].idx].id) : c.uploaded)
            => uploads' = uploads

C14_ShortCircuit == [][C14_Step]_vars

\* C15: an execution schedules at most one successor, with the retry count
\* one higher and never above the cap; an execution at the cap that would
\* retry ends as a failure.
C15_AtMostOneSuccessor ==
    \A w \in Workers :
        wk[w].pc = "done"
            => /\ Len(wk[w].sched) <= 1
               /\ (wk[w].sched /= <<>>) => wk[w].retries < max_retries
               /\ (wk[w].result = "retry") => wk[w].sched /= <<>>

\* A direct call of fn has run.
Called(fn) == fx.fn = fn /\ fx.called

\* C16: called with max_pages = 1, fetch_orders_by_phone has returned or
\* raised by the time the upstream has answered MaxResponses requests,
\* whatever the answers were; it never asks for one more.
C16_EndsWithinResponses ==
    (/\ Called("fetch_orders_by_phone")
     /\ fx.arg.maxPages = 1
     /\ Len(fx.arg.script) = MaxResponses)
        => fx.out.kind /= "unfinished"

\* What the item list of a 2xx body is said to be: the body's elements when
\* it is a bare array, else the first of data, orders, items that holds a
\* non-empty list, else nothing.
ClaimedItems(body) ==
    IF body.isList THEN body.elems
    ELSE IF body.data.tag = "list" /\ body.data.elems /= <<>>
         THEN body.data.elems
    ELSE IF body.orders.tag = "list" /\ body.orders.elems /= <<>>
         THEN body.orders.elems
    ELSE IF body.items.tag = "list" /\ body.items.elems /= <<>>
         THEN body.items.elems
    ELSE <<>>

\* C17: given one 2xx response whose body is a bare array or an object with
\* data, orders, items each absent or a list, fetch_orders_by_phone does not
\* crash and the items it has collected are those of the body's shape.
C17_ItemsByShape ==
    (/\ Called("fetch_orders_by_phone")
     /\ Len(fx.arg.script) = 1
     /\ fx.arg.script[1].kind = "http"
     /\ fx.arg.script[1].status = 200
     /\ \A v \in {fx.arg.script[1].body.data, fx.arg.script[1].body.orders,
                  fx.arg.script[1].body.items} : v.tag /= "other")
        => /\ fx.out.kind \in {"orders", "unfinished"}
           /\ fx.out.orders = ClaimedItems(fx.arg.script[1].body)

\* The recognized statuses.
QualifiedStatuses ==
    {"good", "good_lead", "qualified", "qualified_lead",
     "previously_marked_good_lead"}

\* C19: is_call_qualified answers true exactly when the status, lowercased,
\* is a recognized one or the milestones hold the key qualified.
C19_QualifiedIff ==
    Called("is_call_qualified")
        => (fx.out <=> (\/ LowerStatus(fx.arg.lead_status) \in QualifiedStatuses
                        \/ "qualified" \in fx.arg.milestones))

\* C20: normalize_phone returns the digits of its input, less one leading 1
\* at most.
C20_AtMostOneLeadingOne ==
    Called("normalize_phone")
        => LET digits == OnlyDigits(fx.arg)
           IN  \/ fx.out = digits
               \/ digits /= <<>> /\ Head(digits) = "1" /\ fx.out = Tail(digits)

\* C18: the finalized test is true exactly for an order with one of
\* archived, paid, invoiced set and a total above zero; for an order that
\* fails it the execution moves on to the next order with no mirror upsert,
\* no upload call and no ledger write, and no mirror row of a total of zero
\* or less is ever committed.
C18_TruthTable ==
    /\ \A a, p, i \in BOOLEAN, c \in {-100, 0, 1, 1500, 2500} :
          IsFinalized(OrderItem(<<"o">>, a, p, i, c)) <=> ((a \/ p \/ i) /\ c > 0)
    /\ IsFinalized(OrderItem(<<"o">>, FALSE, FALSE, TRUE, 1500))
    /\ ~IsFinalized(OrderItem(<<"o">>, TRUE, FALSE, FALSE, 0))

C18_Step ==
    \A w \in Workers :
        (/\ wk[w].pc = "loop" /\ StepOf(w)
         /\ wk[w].idx <= Len(wk[w].orders)
         /\ LET o == wk[w].orders[wk[w].idx]
            IN  ~((o.archived \/ o.paid \/ o.invoiced) /\ o.totalCostCents > 0))
            => /\ wk'[w] = [wk[w] EXCEPT !.idx = @ + 1]
               /\ UNCHANGED <<uploads, leads, orderTbl, convTbl, queue>>

C18_FinalizedOnly ==
    /\ [](C18_TruthTable /\ \A r \in orderTbl : r.total_cents > 0)
    /\ [][C18_Step]_vars

\* C18 witness: an execution has passed over the archived order of total 0
\* and has written, uploaded and scheduled nothing.
C18_Witness ==
    \E w \in Workers :
        /\ wk[w].pc = "loop" /\ wk[w].idx = 2
        /\ wk[w].orders = <<Order1Zero>>
        /\ wk[w].txOrders = {} /\ wk[w].txConvs = {} /\ wk[w].ups = <<>>
        /\ ~wk[w].qualifying_found

\* Worker w's execution makes an upload call in this step.
UploadsNow(w) == StepOf(w) /\ uploads' /= uploads

\* The upload call that the platform receives in this step.
NewCall == CHOOSE call \in DOMAIN uploads' : uploads' = BagAdd(uploads, call)

\* The stored response field tells of a partial failure.
HoldsPartialFailure(field) ==
    \E i \in 1..Len(field) : field[i] = "partial_failure"

\* C21: when the platform answers an upload with a partial failure, the
\* execution goes on (no exception), the ledger row written for the order is
\* marked uploaded, and its upload_response field holds the partial-failure
\* information that the upload client returned.
C21_Step ==
    \A w \in Workers :
        (UploadsNow(w) /\ NewCall.outcome = "partial_failure")
            => /\ wk'[w].pc = "loop"
               /\ \E c \in RowsFor(wk'[w].txConvs, KeyOf(wk[w]),
                                   NewCall.order) :
                     /\ c.uploaded
                     /\ HoldsPartialFailure(c.upload_response)

C21_PartialFailureRecorded == [][C21_Step]_vars

\* The part of C21 that the code keeps: after a partial failure the execution
\* goes on and the row is marked uploaded.
C21_StepUploaded ==
    \A w \in Workers :
        (UploadsNow(w) /\ NewCall.outcome = "partial_failure"
         /\ wk'[w].pc /= "done")
            => /\ wk'[w].pc = "loop"
               /\ \E c \in RowsFor(wk'[w].txConvs, KeyOf(wk[w]),
                                   NewCall.order) : c.uploaded

C21_PartialFailureUploaded == [][C21_StepUploaded]_vars

\* C22: the row lock of the lead is never held while the order lookup is in
\* flight: the lookup step is taken by an execution that holds no lock and
\* has written nothing, and leaves it without the lock; the lock is taken
\* only by an execution whose lookup has returned its orders, and while the
\* lock is held the steps are the per-order ones and the closing one, on
\* the orders already fetched.
C22_Step ==
    \A w \in Workers :
        StepOf(w) =>
            /\ wk[w].pc = "fetch"
                  => /\ ~HoldsLeadLock(w, wk[w].lead)
                     /\ wk[w].txOrders = {} /\ wk[w].txConvs = {}
                     /\ wk'[w].pc \in {"lock", "done"}
                     /\ ~HoldsLeadLock(w, wk[w].lead)'
            /\ (wk'[w].pc = "loop" /\ wk[w].pc /= "loop")
                  => /\ wk[w].pc = "lock"
                     /\ wk[w].orders /= <<>>
                     /\ wk'[w].orders = wk[w].orders
            /\ wk[w].pc = "loop"
                  => /\ wk'[w].pc \in {"loop", "done"}
                     /\ wk'[w].pc = "loop" => wk'[w].orders = wk[w].orders

C22_NoLockDuringFetch == [][C22_Step]_vars

\* C22 witness: one execution holds the lock of a lead, on orders it fetched
\* before, while another execution for the same lead is in its lookup.
C22_Witness ==
    \E w, v \in Workers :
        /\ w /= v
        /\ HoldsLeadLock(w, wk[w].lead) /\ wk[w].orders /= <<>>
        /\ wk[w].idx = 2
        /\ wk[v].pc = "fetch" /\ wk[v].lead = wk[w].lead

\* The upload path and the ledger key that the stored lead calls for: the
\* click-identifier path and the click identifier when the lead has one,
\* else the hashed-identity path and the phone digest, or the email digest
\* when there is no phone digest.
PathFor(row) == IF row.gclid /= <<>> THEN "gclid" ELSE "enhanced"

KeyFor(row) ==
    IF row.gclid /= <<>> THEN row.gclid
    ELSE IF hash_identifier(normalize_phone(row.phone)) /= <<>>
    THEN hash_identifier(normalize_phone(row.phone))
    ELSE hash_identifier(row.customer_email)

\* C23: the upload path is chosen by the lead alone.  A step on a finalized
\* order of a lead with a click identifier makes one upload call, by the
\* click-identifier path; every step that uploads makes exactly one call, by
\* the path and under the key the lead calls for, whatever the platform
\* answers, and the ledger rows it writes carry that key.
C23_Step ==
    \A w \in Workers :
        LET row == leads[wk[w].lead]
            o == wk[w].orders[wk[w].idx]
        IN  /\ (/\ wk[w].pc = "loop" /\ StepOf(w)
                /\ wk[w].idx <= Len(wk[w].orders)
                /\ IsFinalized(o) /\ row.gclid /= <<>>)
                  => UploadsNow(w)
            /\ UploadsNow(w)
                  => /\ \E call \in DOMAIN uploads' :
                           /\ call.path = PathFor(row)
                           /\ call.key = KeyFor(row)
                           /\ call.order = o.id
                           /\ uploads' = BagAdd(uploads, call)
                     /\ \A c \in wk'[w].txConvs \ wk[w].txConvs :
                           c.key = KeyFor(row) /\ c.order = o.id

C23_ExclusivePath == [][C23_Step]_vars

\* C23 witness: the platform has answered a click-identifier upload for an
\* order with an error and received no hashed-identity upload for that
\* order, and has received a hashed-identity upload under an email digest.
C23_Witness ==
    /\ \E call \in DOMAIN uploads :
          /\ call.path = "gclid" /\ call.key = Gclid1
          /\ call.outcome = "GoogleAdsException"
          /\ \A d \in DOMAIN uploads :
                d.order = call.order => d.path = "gclid"
    /\ \E call \in DOMAIN uploads :
          /\ call.path = "enhanced"
          /\ call.key = hash_identifier(EmailA)
    /\ \E c \in convTbl : c.key = Gclid1

\* The stored lead has neither a click identifier nor a digest to offer.
NoIdentity(row) ==
    /\ row.gclid = <<>>
    /\ hash_identifier(normalize_phone(row.phone)) = <<>>
    /\ hash_identifier(row.customer_email) = <<>>

\* C24: the platform never receives a hashed-identity upload without a
\* digest.  A step on a finalized order of a lead with no click identifier
\* and no digest makes no upload call and writes no ledger row, but notes
\* the finalized order; the closing step of such an execution then marks the
\* lead processed and commits no ledger row.
C24_NoDigestlessCall ==
    \A call \in DOMAIN uploads : call.path = "enhanced" => call.key /= <<>>

C24_Step ==
    \A w \in Workers :
        (wk[w].pc = "loop" /\ StepOf(w) /\ NoIdentity(leads[wk[w].lead]))
            => IF wk[w].idx <= Len(wk[w].orders)
               THEN IsFinalized(wk[w].orders[wk[w].idx])
                       => /\ uploads' = uploads
                          /\ wk'[w].txConvs = wk[w].txConvs
                          /\ wk'[w].ups = wk[w].ups
                          /\ wk'[w].pc = "loop"
                          /\ wk'[w].idx = wk[w].idx + 1
                          /\ wk'[w].qualifying_found
               ELSE SomeFinalized(wk[w])
                       => /\ leads'[wk[w].lead].processed
                          /\ convTbl' = convTbl
                          /\ wk'[w].result = "pending_orders"

C24_SkipWithoutDigest == []C24_NoDigestlessCall /\ [][C24_Step]_vars

\* C24 witness: an execution for a lead without any identity has ended on a
\* finalized order: the lead is processed, the order is mirrored, and the
\* platform has received nothing and the ledger holds nothing.
C24_Witness ==
    \E w \in Workers :
        /\ wk[w].pc = "done" /\ wk[w].result = "pending_orders"
        /\ NoIdentity(leads[wk[w].lead])
        /\ leads[wk[w].lead].processed
        /\ orderTbl /= {}
        /\ DOMAIN uploads = {} /\ convTbl = {}

\* C25: an execution that leaves the critical section by a retry or by an
\* exception leaves the three tables as they are, whatever it had written
\* for earlier orders of its loop; an execution whose orders hold nothing
\* finalized leaves that way; and the tables change only in the step that
\* commits with processed set, by the writes of that execution (a webhook
\* delivery apart, which only adds its lead).
C25_Step ==
    /\ \A w \in Workers :
          /\ (wk[w].pc = "loop" /\ wk'[w].pc = "done"
              /\ wk'[w].result \notin {"ok", "pending_orders"})
                => UNCHANGED <<leads, orderTbl, convTbl>>
          /\ (wk[w].pc = "loop" /\ StepOf(w)
              /\ wk[w].idx > Len(wk[w].orders) /\ ~SomeFinalized(wk[w]))
                => /\ wk'[w].result \in {"retry", "failed"}
                   /\ UNCHANGED <<leads, orderTbl, convTbl>>
    /\ (\/ orderTbl' /= orderTbl \/ convTbl' /= convTbl
        \/ \E c \in CallIds : leads[c].exists /\ leads'[c] /= leads[c])
          => \E w \in Workers :
                /\ wk[w].pc = "loop" /\ wk'[w].pc = "done"
                /\ wk'[w].result \in {"ok", "pending_orders"}
                /\ leads' = [leads EXCEPT ![wk[w].lead].processed = TRUE]
                /\ orderTbl' \ orderTbl \subseteq wk[w].txOrders
                /\ convTbl' \ convTbl \subseteq wk[w].txConvs

C25_RollbackOnExit == [][C25_Step]_vars

\* C25 witness: the execution for lead 3 has had its hashed-identity upload
\* for order o2 accepted and has then failed on the two ledger rows of order
\* o1; the ledger row of o2 still holds the empty response it held before,
\* the tables are as they were and lead 3 is unprocessed.
C25_Witness ==
    \E w \in Workers :
        /\ wk[w].pc = "done" /\ wk[w].lead = 3
        /\ wk[w].err = "MultipleObjectsReturned"
        /\ Received(UploadCall("enhanced", SharedKey, Order2Invoiced.id,
                               "accepted")) >= 1
        /\ orderTbl = {MirrorRow(Order2Invoiced), MirrorRow(Order1Closed)}
        /\ convTbl = {LedgerRow(NewPk(1, Order2Invoiced.id), Order2Invoiced,
                                "no_result"),
                      LedgerRow(NewPk(1, Order1Closed.id), Order1Closed,
                                "accepted"),
                      LedgerRow(NewPk(2, Order1Closed.id), Order1Closed,
                                "accepted")}
        /\ ~leads[3].processed

\* C26: the status an execution returns tells what it committed.  It
\* returns ok only in a step that commits the lead as processed together
\* with at least one ledger row of its own marked uploaded.  Leaving the
\* critical section, it returns pending_orders exactly when it has been
\* through all its orders, one of them finalized, without writing a ledger
\* row, and then the lead is committed as processed and the ledger is as
\* before.  It returns waf_blocked or already_processed only in a step
\* that leaves the three tables unchanged.
C26_Step ==
    \A w \in Workers :
        (Active(w) /\ wk'[w].pc = "done")
            => /\ wk'[w].result = "ok"
                  => /\ wk[w].pc = "loop"
                     /\ leads'[wk[w].lead].processed
                     /\ \E c \in wk[w].txConvs : c.uploaded /\ c \in convTbl'
                     /\ wk[w].txConvs \subseteq convTbl'
               /\ wk[w].pc = "loop"
                  => (wk'[w].result = "pending_orders"
                        <=> /\ wk[w].idx > Len(wk[w].orders)
                            /\ SomeFinalized(wk[w])
                            /\ wk[w].txConvs = {})
               /\ wk'[w].result = "pending_orders"
                  => /\ wk[w].pc = "loop"
                     /\ leads'[wk[w].lead].processed
                     /\ convTbl' = convTbl
               /\ wk'[w].result \in {"waf_blocked", "already_processed"}
                  => UNCHANGED <<leads, orderTbl, convTbl>>

C26_StatusTellsState == [][C26_Step]_vars

\* C26 witness: one execution has returned ok with its lead processed and
\* an uploaded ledger row of its own committed; another has returned
\* already_processed for the same lead.
C26_Witness ==
    \E w, v \in Workers :
        /\ wk[w].pc = "done" /\ wk[w].result = "ok"
        /\ leads[wk[w].lead].processed
        /\ \E c \in convTbl : c.uploaded /\ c.pk[1] = wk[w].lead
        /\ wk[v].pc = "done" /\ wk[v].result = "already_processed"
        /\ wk[v].lead = wk[w].lead

====
